---- MODULE Spec2Model ----
(***************************************************************************)
(* Model of the crawl frontier of health-to-mp3 (src/src/scrapers/         *)
(* crawler.py): the link normalizer / scope filter of Crawler.visit_page,  *)
(* the checkpoint file, and the session state machine of Crawler.crawl.    *)
(*                                                                         *)
(* A URL is a Python str; it is modelled as the sequence of its            *)
(* characters (one-character strings), so that urlparse, endswith,         *)
(* startswith, split and slicing are computed as the code computes them.   *)
(***************************************************************************)
EXTENDS Integers, Sequences, FiniteSets, TLC

VARIABLES
    \* ---- the normalizer harness (SpecNorm): one raw link pushed through
    \* ---- the filter of visit_page
    raw,            \* the raw link under test
    once,           \* the filter's result on raw (Null when dropped)
    twice,          \* the filter's result on once
    slashed,        \* the filter's result on raw with '/' appended to its path
    npc,            \* "idle" | "raw" | "once" | "twice" | "pair"
    \* ---- the selection harness (SpecSelect): lines 377-378 run twice on
    \* ---- the same set with the random source in the same state
    sel_from,       \* links_to_visit before line 377
    rng,            \* the state of the random source before line 377
    chosen,         \* current_url of each run
    remaining,      \* links_to_visit after line 378 of each run
    spc,            \* "idle" | "run"
    \* ---- the visit harness (SpecVisit): visit_page and
    \* ---- extract_links_with_multiple_methods, step by step
    popups,         \* the popup_selectors (by index) that match on the page
    hrefs,          \* the href of each a[href] element, in document order
    js_links,       \* what the script of method 2 returns
    visits,         \* visit_page calls begun
    made,           \* pages context.new_page() has created
    made_before,    \* made when the current call began
    page,           \* the local page: 0 for None, else the number of the page
    open,           \* pages created on which close() was not called yet
    used,           \* pages the current call acted upon
    selector,       \* index of the loop over popup_selectors
    queried,        \* selectors the current call queried
    clicked,        \* selectors the current call clicked with success
    steps,          \* the steps the current call ran, in order
    threw,          \* the steps of the current call that raised
    raw_links,      \* all_links of extract_links_with_multiple_methods
    got1,           \* hrefs method 1 had read when it ended
    page_links,     \* internal_links of visit_page
    returned,       \* {} until the call returns, then {[links, ok]}
    outcomes,       \* the success flag of every call that returned
    vpc,            \* "idle" | "new_page" | "goto" | "sleep" | "mouse"
                    \* | "networkidle" | "scroll" | "popups" | "click"
                    \* | "settle" | "extract1" | "extract2" | "filter"
                    \* | "close" | "except" | "returned" | "raised"
    \* ---- the checkpoint harness (SpecRound): save_urls_to_json, then
    \* ---- load_existing_urls on the file it wrote
    urls_in,        \* the set passed to save_urls_to_json
    locale_enc,     \* the preferred encoding of the locale, which open() uses
                    \* when it is given none
    disk,           \* the strings of "urls" in the file, as bytes
    reloaded,       \* what load_existing_urls returned
    rpc,            \* "idle" | "save" | "load" | "done"
    \* ---- WebScraper (web_scraper.py): the rate limiter of scrape_url
    clock,          \* datetime.now().timestamp(), in seconds
    last_request_time, \* self.last_request_time: domain -> timestamp, Absent
                    \* for a domain that is no key of the dict
    released,       \* per domain, when its last request left the limiter
    prev_released,  \* per domain, when the request before that one left it
    slept,          \* what the last _check_rate_limit call slept
    tpc,            \* "idle" | "calls"
    \* ---- process_urls_from_json (web_scraper.py)
    url_list,       \* urls, the list read from the JSON file
    next_url,       \* the position of the for loop in urls, from 1
    successful_urls,
    failed_urls,
    fate,           \* for every URL processed so far, whether it succeeded
    summary,        \* {} until the function returns, then {the dict}
    ppc,            \* "idle" | "loop" | "returned" | "raised"
    \* ---- the environment of a crawl
    site,           \* what pages contain: "any" | "chain" | "tree"
    ckpt,           \* the checkpoint file: [state, urls]
    \* ---- Crawler.crawl: configuration, locals and position
    max_pages,      \* self.max_pages
    existing_urls,  \* what load_existing_urls returned
    all_links,      \* KnownLinks
    visited_links,  \* Visited
    failed_links,   \* Failed
    links_to_visit, \* Frontier
    pages_visited,
    current_url,
    attempt,        \* the index of the retry loop, from 0
    success,
    internal_links, \* what the last visit_page call on current_url returned
    result,         \* what crawl returned: {} before it returns, else {the dict}
    pc,             \* "idle" | "start" | "loop" | "attempt" | "backoff" | "pace"
                    \* | "cleanup" | "done" | "crashed"
    \* ---- history of the session, read by the properties only
    calls,          \* visit_page invocations for current_url
    ok_at,          \* number of the first attempt on current_url that succeeded, else 0
    succeeded,      \* URLs whose visit returned success
    unsaved,        \* successful visits since the last checkpoint write that
                    \* found a link the checkpoint file lacks
    saw_both,       \* a processed page linked to other.com/page and to image.jpg
    fail_adds,      \* executions of failed_links.add (line 419)
    paced,          \* sleeps of line 423 since visit_page was last entered
    backoffs,       \* sleeps of line 416 in the retry loop of current_url
    loaded,         \* the state of the checkpoint file when the session read
                    \* it: "none" (not read yet) | "absent" | "corrupt" | "ok"
    discovered      \* the links visit_page added to all_links in the session

normVars == <<raw, once, twice, slashed, npc>>
selVars == <<sel_from, rng, chosen, remaining, spc>>
visitVars == <<popups, hrefs, js_links, visits, made, made_before, page, open,
               used, selector, queried, clicked, steps, threw, raw_links, got1,
               page_links, returned, outcomes, vpc>>
roundVars == <<urls_in, locale_enc, disk, reloaded, rpc>>
rateVars == <<clock, last_request_time, released, prev_released, slept, tpc>>
procVars == <<url_list, next_url, successful_urls, failed_urls, fate, summary,
              ppc>>
scrapeVars == <<rateVars, procVars>>
harnessVars == <<normVars, selVars, visitVars, roundVars, scrapeVars>>
envVars == <<site, ckpt>>
crawlVars == <<max_pages, existing_urls, all_links, visited_links, failed_links,
               links_to_visit, pages_visited, current_url, attempt, success,
               internal_links, result, pc>>
visitHist == <<calls, ok_at, succeeded, unsaved, saw_both, fail_adds, paced,
               backoffs, discovered>>
histVars == <<visitHist, loaded>>
vars == <<harnessVars, envVars, crawlVars, histVars>>

-----------------------------------------------------------------------------
(* Strings as character sequences.                                         *)

Null == <<>>

Https == <<"h","t","t","p","s">>
SchemeSep == <<":","/","/">>
ExampleCom == <<"e","x","a","m","p","l","e",".","c","o","m">>
Www == <<"w","w","w",".">>
OtherCom == <<"o","t","h","e","r",".","c","o","m">>

\* self.site_path: the configured host of the crawl
site_path == ExampleCom

Letters == {"a","b","c","d","e","f","g","h","i","j","k","l","m",
            "n","o","p","q","r","s","t","u","v","w","x","y","z"}
Digits == {"0","1","2","3","4","5","6","7","8","9"}
\* urllib.parse.scheme_chars
scheme_chars == Letters \cup Digits \cup {"+","-","."}

\* str.startswith / str.endswith
StartsWith(s, p) == Len(s) >= Len(p) /\ SubSeq(s, 1, Len(p)) = p
EndsWith(s, x) == Len(s) >= Len(x) /\ SubSeq(s, Len(s) - Len(x) + 1, Len(s)) = x

\* str.find(c) for a one-character c, 1-based; 0 when c does not occur
Find(s, c) ==
    IF \E i \in 1..Len(s) : s[i] = c
    THEN CHOOSE i \in 1..Len(s) : s[i] = c /\ \A j \in 1..(i-1) : s[j] # c
    ELSE 0

\* s[i:] of Python with a 1-based first index
From(s, i) == SubSeq(s, i, Len(s))
\* s[:i] of Python: the characters before the 1-based index i
Before(s, i) == SubSeq(s, 1, i - 1)

\* str.split(sep) for a one-character sep: the list of the pieces
RECURSIVE Split(_, _)
Split(s, sep) ==
    LET i == Find(s, sep)
    IN  IF i = 0 THEN <<s>>
        ELSE <<Before(s, i)>> \o Split(From(s, i + 1), sep)

\* sep.join(list)
RECURSIVE Join(_, _)
Join(list, sep) ==
    IF Len(list) = 0 THEN <<>>
    ELSE IF Len(list) = 1 THEN list[1]
    ELSE list[1] \o sep \o Join(Tail(list), sep)

-----------------------------------------------------------------------------
(* urllib.parse.urlparse, as far as visit_page reads its result: scheme,   *)
(* netloc, path, query.  The fragment is split off and never read.         *)

\* the scheme: the characters before the first ':' when the link starts
\* with a letter and they are all scheme characters
HasScheme(link) ==
    LET i == Find(link, ":")
    IN  /\ i > 1
        /\ link[1] \in Letters
        /\ \A j \in 1..(i-1) : link[j] \in scheme_chars

UrlScheme(link) == IF HasScheme(link) THEN Before(link, Find(link, ":")) ELSE <<>>
AfterScheme(link) == IF HasScheme(link) THEN From(link, Find(link, ":") + 1) ELSE link

\* _splitnetloc(url, 2): the netloc ends at the first of '/', '?', '#'
NetlocEnd(rest) ==
    LET stops == {i \in 3..Len(rest) : rest[i] \in {"/", "?", "#"}}
    IN  IF stops = {} THEN Len(rest) + 1
        ELSE CHOOSE i \in stops : \A j \in stops : i <= j

HasNetloc(rest) == StartsWith(rest, <<"/","/">>)
UrlNetloc(link) ==
    LET rest == AfterScheme(link)
    IN  IF HasNetloc(rest) THEN SubSeq(rest, 3, NetlocEnd(rest) - 1) ELSE <<>>
AfterNetloc(link) ==
    LET rest == AfterScheme(link)
    IN  IF HasNetloc(rest) THEN From(rest, NetlocEnd(rest)) ELSE rest

\* url.split('#', 1)[0]
DropFragment(s) == IF Find(s, "#") = 0 THEN s ELSE Before(s, Find(s, "#"))

UrlPath(link) ==
    LET s == DropFragment(AfterNetloc(link))
    IN  IF Find(s, "?") = 0 THEN s ELSE Before(s, Find(s, "?"))
UrlQuery(link) ==
    LET s == DropFragment(AfterNetloc(link))
    IN  IF Find(s, "?") = 0 THEN <<>> ELSE From(s, Find(s, "?") + 1)

urlparse(link) ==
    [scheme |-> UrlScheme(link), netloc |-> UrlNetloc(link),
     path |-> UrlPath(link), query |-> UrlQuery(link)]

-----------------------------------------------------------------------------
(* The link filter of visit_page (crawler.py 271-296).                     *)

\* the denylist of line 281
DeniedExtensions ==
    { <<".","p","d","f">>, <<".","j","p","g">>, <<".","p","n","g">>,
      <<".","g","i","f">>, <<".","z","i","p">>, <<".","m","p","3">>,
      <<".","m","p","4">> }

\* the prefixes of line 290
ImportantPrefixesMutant ==
    { <<"i","d">>, <<"p","a","g","e">>,
      <<"c","a","t","e","g","o","r","y">>, <<"p">> }
ImportantPrefixes ==
    { <<"i","d","=">>, <<"p","a","g","e","=">>,
      <<"c","a","t","e","g","o","r","y","=">>, <<"p","=">> }

\* line 279: parsed.netloc == site_path or parsed.netloc == "www." + site_path
IsInternal(parsed) == parsed.netloc = site_path \/ parsed.netloc = Www \o site_path

\* line 281: any(link.endswith(ext) ...), tested on the whole link
IsFileLink(link) == \E ext \in DeniedExtensions : EndsWith(link, ext)

\* lines 283-285: scheme://netloc/path, one trailing '/' dropped
StripSlashMutant(parsed) == parsed.scheme \o SchemeSep \o parsed.netloc \o parsed.path
StripSlash(parsed) ==
    LET normalized_url == parsed.scheme \o SchemeSep \o parsed.netloc \o parsed.path
    IN  IF EndsWith(parsed.path, <<"/">>)
        THEN SubSeq(normalized_url, 1, Len(normalized_url) - 1)
        ELSE normalized_url

\* p.startswith(('id=', 'page=', 'category=', 'p='))
IsImportant(p) == \E pre \in ImportantPrefixes : StartsWith(p, pre)

\* [p for p in params if p.startswith(...)]
RECURSIVE Important(_)
Important(params) ==
    IF Len(params) = 0 THEN <<>>
    ELSE (IF IsImportant(params[1]) THEN <<params[1]>> ELSE <<>>)
         \o Important(Tail(params))

\* lines 288-292: the allowlisted parameters, in order, joined with '&'
KeptQuery(parsed) ==
    IF parsed.query = <<>> THEN <<>>
    ELSE LET important_params == Important(Split(parsed.query, "&"))
         IN  IF Len(important_params) = 0 THEN <<>>
             ELSE <<"?">> \o Join(important_params, <<"&">>)

\* The filter on one raw link: Null when the link is dropped, else the
\* normalized_url added to internal_links.
Normalize(link) ==
    LET parsed == urlparse(link)
    IN  IF IsInternal(parsed) /\ ~IsFileLink(link)
        THEN StripSlash(parsed) \o KeptQuery(parsed)
        ELSE Null

-----------------------------------------------------------------------------
(* Raw links of the normalizer harness, built from parts.                  *)

MaxSlashes == 2

RECURSIVE Slashes(_)
Slashes(k) == IF k = 0 THEN <<>> ELSE <<"/">> \o Slashes(k - 1)

NormHosts == {ExampleCom, Www \o ExampleCom, OtherCom}
NormStems ==
    { <<>>, <<"/","a">>, <<"/","a","/","b">>, <<"/","a",".","j","p","g">>,
      <<"/","h","e","a","l","t","h","/","t","o","p","i","c","s">> }
NormPaths == {stem \o Slashes(k) : stem \in NormStems, k \in 0..MaxSlashes}
NormQueries ==
    { <<>>, <<"?","i","d","=","1">>, <<"?","x","=","1">>,
      <<"?","x","=","1","&","i","d","=","1","&","p","=","2">>,
      <<"?","i","d","=","a",".","p","d","f">>,
      <<"?","v","=","a",".","p","d","f">>,
      <<"?","p","i","d","=","1","&","p","a","g","e","=","2","&",
        "c","a","t","e","g","o","r","y","=","c","&","i","d","x","=","3">>,
      <<"?","i","d","&","p","a","g","e","=","2">> }
NormFragments == {<<>>, <<"#","t">>}

MakeLink(host, path, query, fragment) ==
    Https \o SchemeSep \o host \o path \o query \o fragment

RawLinks ==
    {MakeLink(h, p, q, f) : h \in NormHosts, p \in NormPaths,
                            q \in NormQueries, f \in NormFragments}


\* the raw link with '/' appended to its path (before any query or fragment)
WithSlash(link) ==
    LET parsed == urlparse(link)
        k == Len(parsed.scheme) + Len(SchemeSep) + Len(parsed.netloc) + Len(parsed.path)
    IN  SubSeq(link, 1, k) \o <<"/">> \o From(link, k + 1)

-----------------------------------------------------------------------------
(* The pages of the crawled site.                                          *)

\* line 410: pages_visited % 5
SaveEvery == 5

\* the pages of a site with a fixed link graph are PageOf(0..LastPage)
LastPage == SaveEvery

DigitChars == <<"0","1","2","3","4","5","6","7","8","9">>
PageOf(i) == Https \o SchemeSep \o ExampleCom \o <<"/","p", DigitChars[i + 1]>>
PageIndex(u) == CHOOSE i \in 0..9 : PageOf(i) = u

\* self.start_url
start_url == PageOf(0)

OtherPage == Https \o SchemeSep \o OtherCom \o <<"/","p","a","g","e">>
ImageJpg == Https \o SchemeSep \o ExampleCom \o <<"/","i","m","a","g","e",".","j","p","g">>
DeadEnd == Https \o SchemeSep \o ExampleCom \o <<"/","x">>

\* site = "any": a page holds at most three of these raw links, and what it
\* holds may change from one visit attempt to the next
WwwPage == Https \o SchemeSep \o Www \o ExampleCom \o <<"/","p","1">>
AnyRaw ==
    { PageOf(0), WwwPage, WwwPage \o <<"/">>,
      OtherPage, ImageJpg, ImageJpg \o <<"/">> }

\* site = "chain": every page but the last links to exactly one new page.
\* site = "tree": the chain, and the start page also links to a dead end.
SiteLinks(u) ==
    IF u = DeadEnd \/ u = PageOf(LastPage) THEN {}
    ELSE IF site = "tree" /\ u = start_url THEN {PageOf(1), DeadEnd}
    ELSE {PageOf(PageIndex(u) + 1)}

\* raw_links of line 269: what extract_links_with_multiple_methods returns
AnyContents == {R \in SUBSET AnyRaw : Cardinality(R) <= 3}
PageContents(u) == IF site = "any" THEN AnyContents ELSE {SiteLinks(u)}

\* every raw link a page of the model can hold
CrawlRaw == AnyRaw \cup {DeadEnd} \cup {PageOf(i) : i \in 0..LastPage}

\* the filter's result on each of them
Normalized == [link \in CrawlRaw |-> Normalize(link)]

\* every URL the sets of a crawl can hold
CrawlUrls == {Normalized[link] : link \in CrawlRaw} \ {Null}

-----------------------------------------------------------------------------
(* The checkpoint file (load_existing_urls, save_urls_to_json).            *)

\* the characters of the model's URLs in code point order
Ascii ==
    <<"#","&",".","/","0","1","2","3","4","5","6","7","8","9",":","=","?",
      "a","b","c","d","e","f","g","h","i","j","k","l","m",
      "n","o","p","q","r","s","t","u","v","w","x","y","z">>
\* the characters outside ASCII: U+00A9, U+00C3, U+00E9, each written as
\* one token
CodePoints == Ascii \o <<"U+00A9", "U+00C3", "U+00E9">>
Ord(c) == CHOOSE i \in 1..Len(CodePoints) : CodePoints[i] = c

\* a < b on str: by the first character that differs, else by length
StrLess(a, b) ==
    LET n == IF Len(a) < Len(b) THEN Len(a) ELSE Len(b)
        diff == {i \in 1..n : a[i] # b[i]}
    IN  IF diff = {} THEN Len(a) < Len(b)
        ELSE LET i == CHOOSE k \in diff : \A j \in diff : k <= j
             IN  Ord(a[i]) < Ord(b[i])

\* a < b for every two URLs of a crawl
Precedes == [a \in CrawlUrls |-> [b \in CrawlUrls |-> StrLess(a, b)]]

\* sorted(list(urls)) of line 331: the i-th entry is the URL with i - 1
\* smaller ones
Sorted(urls) ==
    [i \in 1..Cardinality(urls) |->
        CHOOSE u \in urls : Cardinality({v \in urls : Precedes[v][u]}) = i - 1]

\* set(list)
ToSet(list) == {list[i] : i \in 1..Len(list)}

Reversed(list) == [i \in 1..Len(list) |-> list[Len(list) + 1 - i]]

NoFile == [state |-> "absent", urls |-> <<>>, count |-> 0]
BadFile == [state |-> "corrupt", urls |-> <<>>, count |-> 0]

\* lines 38-49: set(data["urls"]) of a readable file; set() when there is
\* no file or when reading or parsing it raises
load_existing_urls == IF ckpt.state = "ok" THEN ToSet(ckpt.urls) ELSE {}

\* lines 320-345: the file after save_urls_to_json(urls)
save_urls_to_jsonMutant(urls) ==
    [state |-> "ok", urls |-> Reversed(Sorted(urls)), count |-> Cardinality(urls)]
save_urls_to_json(urls) ==
    [state |-> "ok", urls |-> Sorted(urls), count |-> Cardinality(urls)]

\* the URLs a reader of the checkpoint file finds in it
CkptUrls == IF ckpt.state = "ok" THEN ToSet(ckpt.urls) ELSE {}

-----------------------------------------------------------------------------
(* Crawler.crawl (crawler.py 347-447).                                     *)

\* the retries of the configuration
Retries == 3
\* the largest max_pages of the configurations explored with site = "any"
MaxPages == 3
CapChoices == IF site = "tree" THEN {SaveEvery + 1} ELSE 1..MaxPages

\* line 352: all_links = existing_urls.copy()
InitialKnownMutant(existing) == {}
InitialKnownSeeded(existing) == existing \cup {start_url}
InitialKnown(existing) == existing

\* lines 358-365: the initial Frontier
SeedMutant(existing) == existing \cup {start_url}
Seed(existing) == IF existing # {} THEN existing ELSE {start_url}

\* line 375: the loop condition
LoopGuardMutant == links_to_visit # {} /\ pages_visited <= max_pages
LoopGuard == links_to_visit # {} /\ pages_visited < max_pages

\* lines 272-296: internal_links of a page whose raw links are R
InternalLinks(R) == {Normalized[link] : link \in R} \ {Null}

\* lines 405-407: the links of a successful visit that are enqueued
NewToVisitMutant(internal) ==
    {link \in internal : link \notin links_to_visit /\ link \notin failed_links}
NewToVisitRequeue(internal) == {link \in internal : link \notin links_to_visit}
NewToVisit(internal) ==
    {link \in internal : /\ link \notin visited_links
                         /\ link \notin links_to_visit
                         /\ link \notin failed_links}

\* lines 298-303: all_links after visit_page has added the links of a page
MergeLinksMutant(internal) == all_links
MergeLinks(internal) == all_links \cup internal

\* line 385: the selected URL is marked as visited
MarkVisitedMutant(u) == visited_links
MarkVisited(u) == visited_links \cup {u}

\* line 392: range(self.retries) has another attempt after this one
MoreAttemptsMutant == attempt + 1 <= Retries
MoreAttempts == attempt + 1 < Retries

\* lines 418-423: after the failure is recorded the iteration goes on to the
\* sleep between two pages
AfterFailureMutant == "loop"
AfterFailure == "pace"

\* line 413: break, the retry loop is left at the first success
AfterSuccessMutant == "backoff"
AfterSuccess == "pace"

\* line 410: the periodic save is due
SaveDue == pages_visited % SaveEvery = 0

SessionReset ==
    /\ existing_urls' = {}
    /\ all_links' = {}
    /\ visited_links' = {}
    /\ failed_links' = {}
    /\ links_to_visit' = {}
    /\ pages_visited' = 0
    /\ current_url' = Null
    /\ attempt' = 0
    /\ success' = FALSE
    /\ internal_links' = {}
    /\ calls' = 0
    /\ ok_at' = 0
    /\ succeeded' = {}
    /\ unsaved' = 0
    /\ saw_both' = FALSE
    /\ fail_adds' = 0
    /\ loaded' = "none"
    /\ discovered' = {}
    /\ paced' = 0
    /\ backoffs' = 0
    /\ result' = {}

\* lines 349-372: load the checkpoint, seed the Frontier, configure the browser
StartSession ==
    /\ pc = "start"
    /\ existing_urls' = load_existing_urls
    /\ all_links' = InitialKnown(load_existing_urls)
    /\ links_to_visit' = Seed(load_existing_urls)
    /\ loaded' = ckpt.state
    /\ pc' = "loop"
    /\ UNCHANGED <<harnessVars, envVars, max_pages, visited_links, failed_links,
                   pages_visited, current_url, attempt, success,
                   internal_links, result, visitHist>>

\* line 368 raises: configure_browser is outside the try, crawl raises
StartFails ==
    /\ pc = "start"
    /\ existing_urls' = load_existing_urls
    /\ all_links' = InitialKnown(load_existing_urls)
    /\ links_to_visit' = Seed(load_existing_urls)
    /\ loaded' = ckpt.state
    /\ pc' = "crashed"
    /\ UNCHANGED <<harnessVars, envVars, max_pages, visited_links, failed_links,
                   pages_visited, current_url, attempt, success,
                   internal_links, result, visitHist>>

\* lines 375-391: the loop condition holds, a random member of the Frontier
\* is taken; it is skipped when already visited, else marked visited
Select ==
    /\ pc = "loop"
    /\ LoopGuard
    /\ \E u \in links_to_visit :
         /\ links_to_visit' = links_to_visit \ {u}
         /\ IF u \in visited_links
            THEN /\ pc' = "loop"
                 /\ UNCHANGED <<visited_links, pages_visited, current_url,
                                attempt, success, internal_links, calls, ok_at>>
            ELSE /\ visited_links' = MarkVisited(u)
                 /\ pages_visited' = pages_visited + 1
                 /\ current_url' = u
                 /\ attempt' = 0
                 /\ success' = FALSE
                 /\ internal_links' = {}
                 /\ calls' = 0
                 /\ ok_at' = 0
                 /\ pc' = "attempt"
    /\ UNCHANGED <<harnessVars, envVars, max_pages, existing_urls, all_links,
                   failed_links, result, succeeded, unsaved, saw_both,
                   fail_adds, paced, loaded, discovered>>
    /\ backoffs' = 0

\* line 375: the loop condition fails, the loop ends
ExitLoop ==
    /\ pc = "loop"
    /\ ~LoopGuard
    /\ pc' = "cleanup"
    /\ UNCHANGED <<harnessVars, envVars, max_pages, existing_urls, all_links,
                   visited_links, failed_links, links_to_visit, pages_visited,
                   current_url, attempt, success, internal_links, result, histVars>>

HoldsBoth(R) == OtherPage \in R /\ ImageJpg \in R

\* lines 397-413 with visit_page returning (internal_links, True): the links
\* are merged into all_links (298-303) and the Frontier, the periodic save
\* is made when due
VisitOK ==
    /\ pc = "attempt"
    /\ \E R \in PageContents(current_url) :
       LET found == InternalLinks(R)
           merged == MergeLinks(found)
       IN  /\ internal_links' = found
           /\ all_links' = merged
           /\ links_to_visit' = links_to_visit \cup NewToVisit(found)
           /\ IF SaveDue
              THEN /\ ckpt' = save_urls_to_json(merged)
                   /\ unsaved' = 0
              ELSE /\ ckpt' = ckpt
                   /\ unsaved' = IF found \subseteq CkptUrls
                                 THEN unsaved ELSE unsaved + 1
           /\ saw_both' = (saw_both \/ HoldsBoth(R))
           /\ discovered' = discovered \cup found
    /\ success' = TRUE
    /\ paced' = 0
    /\ calls' = calls + 1
    /\ ok_at' = IF ok_at = 0 THEN attempt + 1 ELSE ok_at
    /\ succeeded' = succeeded \cup {current_url}
    /\ pc' = AfterSuccess
    /\ UNCHANGED <<harnessVars, site, max_pages, existing_urls, visited_links,
                   failed_links, pages_visited, current_url, attempt, result,
                   fail_adds, backoffs, loaded>>

\* visit_page raises before line 298 and returns (set(), False)
VisitFails ==
    /\ pc = "attempt"
    /\ internal_links' = {}
    /\ paced' = 0
    /\ calls' = calls + 1
    /\ pc' = "backoff"
    /\ UNCHANGED <<harnessVars, envVars, max_pages, existing_urls, all_links,
                   visited_links, failed_links, links_to_visit, pages_visited,
                   current_url, attempt, success, ok_at, succeeded, unsaved,
                   saw_both, fail_adds, backoffs, result, loaded, discovered>>

\* page.close() of line 308 raises: the links are already merged into
\* all_links, visit_page returns (set(), False)
VisitFailsAtClose ==
    /\ pc = "attempt"
    /\ \E R \in PageContents(current_url) :
         /\ all_links' = MergeLinks(InternalLinks(R))
         /\ discovered' = discovered \cup InternalLinks(R)
         /\ saw_both' = (saw_both \/ HoldsBoth(R))
    /\ internal_links' = {}
    /\ paced' = 0
    /\ calls' = calls + 1
    /\ pc' = "backoff"
    /\ UNCHANGED <<harnessVars, envVars, max_pages, existing_urls,
                   visited_links, failed_links, links_to_visit, pages_visited,
                   current_url, attempt, success, ok_at, succeeded, unsaved,
                   fail_adds, backoffs, result, loaded>>

\* line 416 and the end of the for body: the backoff sleep, then the next
\* attempt, or lines 418-420 when the attempts are used up
Backoff ==
    /\ pc = "backoff"
    /\ backoffs' = backoffs + 1
    /\ attempt' = attempt + 1
    /\ IF MoreAttempts
       THEN /\ pc' = "attempt"
            /\ UNCHANGED <<failed_links, fail_adds>>
       ELSE /\ pc' = AfterFailure
            /\ failed_links' = IF success THEN failed_links
                               ELSE failed_links \cup {current_url}
            /\ fail_adds' = IF success THEN fail_adds ELSE fail_adds + 1
    /\ UNCHANGED <<harnessVars, envVars, max_pages, existing_urls, all_links,
                   visited_links, links_to_visit, pages_visited, current_url,
                   success, internal_links, calls, ok_at, succeeded, unsaved,
                   saw_both, paced, result, loaded, discovered>>

\* line 423: the sleep between two pages.  The locals of the iteration
\* (current_url, attempt, success, internal_links) are dead from here on,
\* line 377 and lines 391-397 overwrite them before they are read: they are
\* cleared.
Pace ==
    /\ pc = "pace"
    /\ current_url' = Null
    /\ attempt' = 0
    /\ success' = FALSE
    /\ internal_links' = {}
    /\ calls' = 0
    /\ ok_at' = 0
    /\ paced' = paced + 1
    /\ backoffs' = 0
    /\ pc' = "loop"
    /\ UNCHANGED <<harnessVars, envVars, max_pages, existing_urls, all_links,
                   visited_links, failed_links, links_to_visit, pages_visited,
                   result, succeeded, unsaved, saw_both, fail_adds, loaded,
                   discovered>>

\* an exception leaves the loop body (lines 425-426, or an exception that
\* is no Exception): control reaches the finally block
Abort ==
    /\ pc \in {"attempt", "backoff", "pace"}
    /\ pc' = "cleanup"
    /\ UNCHANGED <<harnessVars, envVars, max_pages, existing_urls, all_links,
                   visited_links, failed_links, links_to_visit, pages_visited,
                   current_url, attempt, success, internal_links, result, histVars>>

\* lines 442-447: the dict crawl returns
SessionResult ==
    [urls_count |-> Cardinality(all_links),
     pages_visited |-> pages_visited,
     failed_urls |-> Cardinality(failed_links),
     output_file |-> "filepath"]

\* lines 428-447: the browser closes, the final save is made, crawl returns
FinalSave ==
    /\ pc = "cleanup"
    /\ ckpt' = save_urls_to_json(all_links)
    /\ unsaved' = 0
    /\ result' = {SessionResult}
    /\ pc' = "done"
    /\ UNCHANGED <<harnessVars, site, max_pages, existing_urls, all_links,
                   visited_links, failed_links, links_to_visit, pages_visited,
                   current_url, attempt, success, internal_links, calls, ok_at,
                   succeeded, saw_both, fail_adds, paced, backoffs, loaded,
                   discovered>>

\* lines 430-431 raise: the finally block is left before line 440
CloseFails ==
    /\ pc = "cleanup"
    /\ pc' = "crashed"
    /\ UNCHANGED <<harnessVars, envVars, max_pages, existing_urls, all_links,
                   visited_links, failed_links, links_to_visit, pages_visited,
                   current_url, attempt, success, internal_links, result, histVars>>

\* run_crawler (450-453): a new Crawler is built and crawls again
Restart ==
    /\ pc \in {"done", "crashed"}
    /\ max_pages' \in CapChoices
    /\ SessionReset
    /\ pc' = "start"
    /\ UNCHANGED <<harnessVars, envVars>>

-----------------------------------------------------------------------------
(* The selection of the next URL (crawl, lines 377-378).                   *)

\* the sizes of the selection harness
FrontierMax == 4
RngStates == 3

\* list(links_to_visit), line 377: the members of the set, each once, in the
\* order the set's hash table yields them. The order of a set of str
\* depends on the hash seed of the process and on the insertions and
\* removals the set has seen, so it is any order
ListsOf(S) ==
    {lst \in [1..Cardinality(S) -> S] :
        \A i, j \in 1..Cardinality(S) : lst[i] = lst[j] => i = j}

\* random._randbelow(n): a function of the generator's state
RandBelow(state, n) == state % n

\* random.choice(seq), line 377: seq[_randbelow(len(seq))]
random_choice(seq, state) == seq[RandBelow(state, Len(seq)) + 1]

\* lines 377-378 on sel_from, with the random source in state rng
SelectNext ==
    /\ spc = "run"
    /\ Len(chosen) < 2
    /\ \E lst \in ListsOf(sel_from) :
         LET url == random_choice(lst, rng)
         IN  /\ chosen' = Append(chosen, url)
             /\ remaining' = Append(remaining, sel_from \ {url})
    /\ UNCHANGED <<sel_from, rng, spc, normVars, visitVars, roundVars, scrapeVars,
                   envVars, crawlVars, histVars>>

-----------------------------------------------------------------------------
(* One visit: visit_page (187-318) and                                     *)
(* extract_links_with_multiple_methods (125-185).                          *)

\* the sizes of the visit harness: the selectors of popup_selectors that
\* are modelled, and the visit_page calls in a row
NumSelectors == 3
MaxVisits == 2

visitInputs == <<popups, hrefs, js_links>>
pageVars == <<visits, made, made_before, page, open>>
popupVars == <<selector, queried, clicked>>
extractVars == <<raw_links, got1, page_links>>
crawlOthers == <<max_pages, existing_urls, visited_links, failed_links,
                 links_to_visit, pages_visited, current_url, attempt, success,
                 internal_links, result, pc>>
outsideVisit == <<normVars, selVars, roundVars, scrapeVars, envVars, crawlOthers,
                  histVars>>

Chars_javascript == <<"j","a","v","a","s","c","r","i","p","t",":">>
Chars_mailto == <<"m","a","i","l","t","o",":">>
Chars_tel == <<"t","e","l",":">>
Chars_hash == <<"#">>

\* line 134: `href and not href.startswith(('javascript:', 'mailto:',
\* 'tel:', '#'))` is false
SkippedHref(href) ==
    \/ href = <<>>
    \/ \E prefix \in {Chars_javascript, Chars_mailto, Chars_tel, Chars_hash} :
         StartsWith(href, prefix)

\* line 135: urljoin(url, href). The hrefs of the harness that pass line 134
\* are absolute https URLs with a host, which urljoin returns as they are
urljoin(href) == href

\* lines 131-136: all_links when the loop of method 1 has read the first n
\* hrefs
Method1(n) == {urljoin(hrefs[i]) : i \in {j \in 1..n : ~SkippedHref(hrefs[j])}}

\* line 181: all_links.update(js_links)
UpdateMutant(links, more) == more
Update(links, more) == links \cup more

\* lines 313-317: the page of a call that raised is closed when there is one
ClosedOnErrorMutant == open
ClosedOnError == IF page # 0 THEN open \ {page} ELSE open

\* the locals of a visit_page call that begins (line 189: page = None)
VisitLocals ==
    /\ page' = 0
    /\ used' = {}
    /\ selector' = 1
    /\ queried' = {}
    /\ clicked' = {}
    /\ steps' = <<>>
    /\ threw' = {}
    /\ raw_links' = {}
    /\ got1' = 0
    /\ page_links' = {}
    /\ returned' = {}

\* an awaited call on the page: it returns, or it raises an Exception, which
\* line 311 catches
PageCall(label, next) ==
    /\ used' = used \cup {page}
    /\ steps' = Append(steps, label)
    /\ \E ok \in BOOLEAN :
         IF ok
         THEN vpc' = next /\ threw' = threw
         ELSE vpc' = "except" /\ threw' = threw \cup {label}

\* line 192: context.new_page()
NewPage ==
    /\ vpc = "new_page"
    /\ steps' = Append(steps, "new_page")
    /\ \E ok \in BOOLEAN :
         IF ok
         THEN /\ made' = made + 1
              /\ page' = made + 1
              /\ open' = open \cup {made + 1}
              /\ vpc' = "goto"
              /\ threw' = threw
         ELSE /\ vpc' = "except"
              /\ threw' = threw \cup {"new_page"}
              /\ UNCHANGED <<made, page, open>>
    /\ UNCHANGED <<visitInputs, visits, made_before, used, popupVars,
                   extractVars, returned, outcomes, outsideVisit, all_links>>

\* line 195: page.goto(url, wait_until="domcontentloaded")
Goto ==
    /\ vpc = "goto"
    /\ PageCall("goto", "sleep")
    /\ UNCHANGED <<visitInputs, pageVars, popupVars, extractVars, returned,
                   outcomes, outsideVisit, all_links>>

\* line 198: asyncio.sleep(random.uniform(1, 2))
SleepLikeUser ==
    /\ vpc = "sleep"
    /\ steps' = Append(steps, "sleep")
    /\ vpc' = "mouse"
    /\ UNCHANGED <<visitInputs, pageVars, used, popupVars, threw, extractVars,
                   returned, outcomes, outsideVisit, all_links>>

\* line 201: page.mouse.move(...)
MouseMove ==
    /\ vpc = "mouse"
    /\ PageCall("mouse", "networkidle")
    /\ UNCHANGED <<visitInputs, pageVars, popupVars, extractVars, returned,
                   outcomes, outsideVisit, all_links>>

\* line 204: page.wait_for_load_state("networkidle")
WaitNetworkIdle ==
    /\ vpc = "networkidle"
    /\ PageCall("networkidle", "scroll")
    /\ UNCHANGED <<visitInputs, pageVars, popupVars, extractVars, returned,
                   outcomes, outsideVisit, all_links>>

\* lines 207-228: page.evaluate of the scrolling script
Scroll ==
    /\ vpc = "scroll"
    /\ PageCall("scroll", "popups")
    /\ UNCHANGED <<visitInputs, pageVars, popupVars, extractVars, returned,
                   outcomes, outsideVisit, all_links>>

\* lines 255-257 and 260-261: page.query_selector(selector) for the next
\* selector of the list; an Exception is swallowed and the loop goes on
PopupQuery ==
    /\ vpc = "popups"
    /\ selector <= NumSelectors
    /\ queried' = queried \cup {selector}
    /\ used' = used \cup {page}
    /\ steps' = IF selector = 1 THEN Append(steps, "popups") ELSE steps
    /\ \E ok \in BOOLEAN :
         IF ~ok
         THEN /\ threw' = threw \cup {"popups"}
              /\ selector' = selector + 1
              /\ vpc' = "popups"
         ELSE /\ threw' = threw
              /\ IF selector \in popups
                 THEN selector' = selector /\ vpc' = "click"
                 ELSE selector' = selector + 1 /\ vpc' = "popups"
    /\ UNCHANGED <<visitInputs, pageVars, clicked, extractVars, returned,
                   outcomes, outsideVisit, all_links>>

\* lines 258-261: page.click(selector) and the sleep after it; an Exception
\* is swallowed; either way the loop goes on with the next selector
PopupClick ==
    /\ vpc = "click"
    /\ used' = used \cup {page}
    /\ \E ok \in BOOLEAN :
         IF ok
         THEN clicked' = clicked \cup {selector} /\ threw' = threw
         ELSE clicked' = clicked /\ threw' = threw \cup {"popups"}
    /\ selector' = selector + 1
    /\ vpc' = "popups"
    /\ UNCHANGED <<visitInputs, pageVars, queried, steps, extractVars,
                   returned, outcomes, outsideVisit, all_links>>

\* line 266, after the loop over popup_selectors: asyncio.sleep(1)
Settle ==
    /\ vpc = "popups"
    /\ selector > NumSelectors
    /\ steps' = Append(steps, "settle")
    /\ vpc' = "extract1"
    /\ UNCHANGED <<visitInputs, pageVars, used, popupVars, threw, extractVars,
                   returned, outcomes, outsideVisit, all_links>>

\* lines 130-138, method 1: query_selector_all, then get_attribute on each
\* element; it ends normally after the last href, or an Exception ends it
\* after n of them and is logged
ExtractBySelectors ==
    /\ vpc = "extract1"
    /\ used' = used \cup {page}
    /\ steps' = Append(steps, "extract")
    /\ \E n \in 0..Len(hrefs), ok \in BOOLEAN :
         /\ ok => n = Len(hrefs)
         /\ ~ok => (n < Len(hrefs) \/ hrefs = <<>>)
         /\ got1' = n
         /\ raw_links' = Method1(n)
         /\ threw' = IF ok THEN threw ELSE threw \cup {"selectors"}
    /\ vpc' = "extract2"
    /\ UNCHANGED <<visitInputs, pageVars, popupVars, page_links, returned,
                   outcomes, outsideVisit, all_links>>

\* lines 141-183, method 2: page.evaluate of the extraction script, then
\* all_links.update; an Exception is logged
ExtractByJs ==
    /\ vpc = "extract2"
    /\ \E ok \in BOOLEAN :
         IF ok
         THEN raw_links' = Update(raw_links, js_links) /\ threw' = threw
         ELSE raw_links' = raw_links /\ threw' = threw \cup {"javascript"}
    /\ vpc' = "filter"
    /\ UNCHANGED <<visitInputs, pageVars, used, popupVars, steps, got1,
                   page_links, returned, outcomes, outsideVisit, all_links>>

\* lines 271-303: the raw links are filtered and the links kept are added
\* to self.all_links
FilterAndMerge ==
    /\ vpc = "filter"
    /\ page_links' = InternalLinks(raw_links)
    /\ all_links' = MergeLinks(InternalLinks(raw_links))
    /\ vpc' = "close"
    /\ UNCHANGED <<visitInputs, pageVars, used, popupVars, steps, threw,
                   raw_links, got1, returned, outcomes, outsideVisit>>

\* lines 308-309: page.close(), then return internal_links, True; when
\* close raises, line 311 catches it
ClosePage ==
    /\ vpc = "close"
    /\ used' = used \cup {page}
    /\ steps' = Append(steps, "close")
    /\ open' = open \ {page}
    /\ \E ok \in BOOLEAN :
         IF ok
         THEN /\ returned' = {[links |-> page_links, ok |-> TRUE]}
              /\ outcomes' = Append(outcomes, TRUE)
              /\ threw' = threw
              /\ vpc' = "returned"
         ELSE /\ returned' = returned
              /\ outcomes' = outcomes
              /\ threw' = threw \cup {"close"}
              /\ vpc' = "except"
    /\ UNCHANGED <<visitInputs, visits, made, made_before, page, popupVars,
                   extractVars, outsideVisit, all_links>>

\* lines 311-318: the page, when there is one, is closed, whatever that
\* close raises is swallowed, and visit_page returns set(), False
OnException ==
    /\ vpc = "except"
    /\ open' = ClosedOnError
    /\ used' = IF page # 0 THEN used \cup {page} ELSE used
    /\ returned' = {[links |-> {}, ok |-> FALSE]}
    /\ outcomes' = Append(outcomes, FALSE)
    /\ vpc' = "returned"
    /\ UNCHANGED <<visitInputs, visits, made, made_before, page, popupVars,
                   steps, threw, extractVars, outsideVisit, all_links>>

\* an exception that is no Exception (the task is cancelled, the process
\* is interrupted) at one of the awaits of lines 192-308: neither line 311
\* nor the handlers of the popup block catch it, it leaves visit_page
Cancelled ==
    /\ vpc \in {"new_page", "goto", "sleep", "mouse", "networkidle", "scroll",
                "popups", "click", "extract1", "extract2", "close"}
    /\ vpc' = "raised"
    /\ UNCHANGED <<visitInputs, pageVars, used, popupVars, steps, threw,
                   extractVars, returned, outcomes, outsideVisit, all_links>>

\* crawl, lines 392-398: visit_page is called again with the same context,
\* for the next attempt or for the next URL
NextVisit ==
    /\ vpc = "returned"
    /\ visits < MaxVisits
    /\ visits' = visits + 1
    /\ made_before' = made
    /\ VisitLocals
    /\ vpc' = "new_page"
    /\ UNCHANGED <<visitInputs, made, open, outcomes, outsideVisit, all_links>>

-----------------------------------------------------------------------------
(* The checkpoint file as bytes: save_urls_to_json (320-345) writes it     *)
(* with encoding='utf-8' and ensure_ascii=False, load_existing_urls        *)
(* (38-49) opens it with open(filepath, 'r'), in the locale's encoding.    *)

\* a URL with a character outside ASCII: https://example.com/café
CafePage == Https \o SchemeSep \o ExampleCom \o <<"/","c","a","f","U+00E9">>

\* the bytes of the model that are no ASCII characters
HighBytes == {"0xC3", "0xA9"}

\* str.encode('utf-8') of one character: an ASCII character is one byte,
\* U+00E9 is the two bytes C3 A9
EncodeChar(c) == IF c = "U+00E9" THEN <<"0xC3", "0xA9">> ELSE <<c>>

\* line 339 on a file opened with encoding='utf-8' (line 338): json.dump
\* with ensure_ascii=False writes the characters of the model's URLs as
\* they are, the file object encodes them
RECURSIVE Utf8Encode(_)
Utf8Encode(str) ==
    IF str = <<>> THEN <<>>
    ELSE EncodeChar(Head(str)) \o Utf8Encode(Tail(str))

\* bytes.decode('utf-8') of bytes Utf8Encode wrote
Utf8Decode(bytes) ==
    LET chars == [i \in 1..Len(bytes) |->
                    IF bytes[i] = "0xC3" THEN "U+00E9"
                    ELSE IF bytes[i] = "0xA9" THEN ""
                    ELSE bytes[i]]
        Kept(c) == c # ""
    IN  SelectSeq(chars, Kept)

\* bytes.decode('cp1252'): every byte is one character
Cp1252Decode(bytes) ==
    [i \in 1..Len(bytes) |->
        IF bytes[i] = "0xC3" THEN "U+00C3"
        ELSE IF bytes[i] = "0xA9" THEN "U+00A9"
        ELSE bytes[i]]

\* whether reading the bytes with the encoding raises UnicodeDecodeError
DecodeRaises(bytes, enc) ==
    enc = "ascii" /\ \E i \in 1..Len(bytes) : bytes[i] \in HighBytes

Decode(bytes, enc) ==
    IF enc = "utf-8" THEN Utf8Decode(bytes)
    ELSE IF enc = "cp1252" THEN Cp1252Decode(bytes)
    ELSE bytes

\* line 331: sorted(list(urls)), for any set of str
sorted_list(urls) ==
    [i \in 1..Cardinality(urls) |->
        CHOOSE u \in urls : Cardinality({v \in urls : StrLess(v, u)}) = i - 1]

\* lines 320-345: save_urls_to_json(urls_in) writes the file
SaveRound ==
    /\ rpc = "save"
    /\ disk' = [i \in 1..Cardinality(urls_in) |-> Utf8Encode(sorted_list(urls_in)[i])]
    /\ rpc' = "load"
    /\ UNCHANGED <<urls_in, locale_enc, reloaded, normVars, selVars, visitVars,
                   scrapeVars, envVars, crawlVars, histVars>>

\* lines 38-49: load_existing_urls reads the file: set(data["urls"]), or
\* set() when reading raises
LoadRound ==
    /\ rpc = "load"
    /\ reloaded' =
         IF \E i \in 1..Len(disk) : DecodeRaises(disk[i], locale_enc)
         THEN {}
         ELSE {Decode(disk[i], locale_enc) : i \in 1..Len(disk)}
    /\ rpc' = "done"
    /\ UNCHANGED <<urls_in, locale_enc, disk, normVars, selVars, visitVars,
                   scrapeVars, envVars, crawlVars, histVars>>

-----------------------------------------------------------------------------
(* WebScraper.scrape_url with its rate limiter, and                        *)
(* process_urls_from_json (src/src/scrapers/web_scraper.py).               *)

\* src/config.py line 10: SCRAPER_CONFIG['DELAY_BETWEEN_REQUESTS'], seconds
DELAY_BETWEEN_REQUESTS == 2

\* the sizes of the scraping harness: the seconds a call spends outside the
\* limiter, the time observed, the length of the list of URLs
MaxWork == 2
MaxClock == 8
MaxUrls == 3

\* line 98: domain = url.split('/')[2]
DomainOf(url) == Split(url, "/")[3]

\* the URLs that are scraped, and their domains
RateUrls == {PageOf(0), PageOf(1), OtherPage}
RateDomains == {DomainOf(url) : url \in RateUrls}

\* a domain that is no key of self.last_request_time
Absent == -1

\* lines 35-41: what _check_rate_limit(domain) sleeps when it is called at
\* clock
SleepFor(domain) ==
    LET time_passed == clock - last_request_time[domain]
    IN  IF last_request_time[domain] # Absent /\ time_passed < DELAY_BETWEEN_REQUESTS
        THEN DELAY_BETWEEN_REQUESTS - time_passed
        ELSE 0

\* lines 33-42, then the rest of the call: _check_rate_limit(domain) reads
\* the time, sleeps, and stores the time it read before the sleep; the
\* request leaves the limiter after the sleep; the caller then spends
\* `work` seconds before it does anything else
RateLimit(domain, work) ==
    /\ slept' = SleepFor(domain)
    /\ last_request_time' = [last_request_time EXCEPT ![domain] = clock]
    /\ prev_released' = [prev_released EXCEPT ![domain] = released[domain]]
    /\ released' = [released EXCEPT ![domain] = clock + SleepFor(domain)]
    /\ clock' = clock + SleepFor(domain) + work

\* lines 84-142: one scrape_url call that reaches the limiter of line 99;
\* loading and converting the page takes `work` seconds
ScrapeUrl ==
    /\ tpc = "calls"
    /\ \E url \in RateUrls, work \in 1..MaxWork :
         /\ clock + SleepFor(DomainOf(url)) + work <= MaxClock
         /\ RateLimit(DomainOf(url), work)
    /\ UNCHANGED <<tpc, procVars, normVars, selVars, visitVars, roundVars,
                   envVars, crawlVars, histVars>>

\* lines 324-327: where the for loop goes after a URL has failed
StopAfterFailure == Len(url_list) + 1
ContinueAfterFailure == next_url + 1

\* lines 303-327, one pass of the for loop: scrape_url raises before its
\* limiter ("early": the browser does not start), or after it ("late": the
\* page does not load, the database or the write of the file raises), or
\* the URL is scraped and written ("ok"), followed by the sleep of line 323
ProcessUrl ==
    /\ ppc = "loop"
    /\ next_url <= Len(url_list)
    /\ \E outcome \in {"early", "late", "ok"}, work \in 1..MaxWork :
         LET url == url_list[next_url]
         IN  /\ CASE outcome = "early" ->
                       /\ clock' = clock + work
                       /\ UNCHANGED <<last_request_time, released,
                                      prev_released, slept>>
                  [] outcome = "late" -> RateLimit(DomainOf(url), work)
                  [] outcome = "ok" ->
                       RateLimit(DomainOf(url), work + DELAY_BETWEEN_REQUESTS)
             /\ IF outcome = "ok"
                THEN /\ successful_urls' = Append(successful_urls, url)
                     /\ failed_urls' = failed_urls
                     /\ fate' = Append(fate, TRUE)
                     /\ next_url' = next_url + 1
                ELSE /\ failed_urls' = Append(failed_urls, url)
                     /\ successful_urls' = successful_urls
                     /\ fate' = Append(fate, FALSE)
                     /\ next_url' = ContinueAfterFailure
    /\ UNCHANGED <<tpc, url_list, summary, ppc, normVars, selVars, visitVars,
                   roundVars, envVars, crawlVars, histVars>>

\* lines 329-349, after the loop: the summary is logged, the failed URLs
\* are written to failed_urls.json when there are some, the dict is
\* returned; when that write raises, line 351 re-raises
Summarize ==
    /\ ppc = "loop"
    /\ next_url > Len(url_list)
    /\ \E written \in BOOLEAN :
         /\ failed_urls = <<>> => written
         /\ IF written
            THEN /\ summary' = {[successful |-> Len(successful_urls),
                                 failed |-> Len(failed_urls)]}
                 /\ ppc' = "returned"
            ELSE /\ summary' = summary
                 /\ ppc' = "raised"
    /\ UNCHANGED <<rateVars, url_list, next_url, successful_urls, failed_urls,
                   fate, normVars, selVars, visitVars, roundVars, envVars,
                   crawlVars, histVars>>

\* an exception that is no Exception (cancellation, interrupt) at an await
\* of the loop: neither line 325 nor line 351 catches it
Interrupted ==
    /\ ppc = "loop"
    /\ next_url <= Len(url_list)
    /\ ppc' = "raised"
    /\ UNCHANGED <<rateVars, url_list, next_url, successful_urls, failed_urls,
                   fate, summary, normVars, selVars, visitVars, roundVars,
                   envVars, crawlVars, histVars>>

-----------------------------------------------------------------------------
(* The specifications.                                                     *)

NormIdle ==
    /\ raw = Null
    /\ once = Null
    /\ twice = Null
    /\ slashed = Null
    /\ npc = "idle"

SelIdle ==
    /\ sel_from = {}
    /\ rng = 0
    /\ chosen = <<>>
    /\ remaining = <<>>
    /\ spc = "idle"

RateIdle ==
    /\ clock = 0
    /\ last_request_time = [d \in RateDomains |-> Absent]
    /\ released = [d \in RateDomains |-> Absent]
    /\ prev_released = [d \in RateDomains |-> Absent]
    /\ slept = 0
    /\ tpc = "idle"

ProcIdle ==
    /\ url_list = <<>>
    /\ next_url = 1
    /\ successful_urls = <<>>
    /\ failed_urls = <<>>
    /\ fate = <<>>
    /\ summary = {}
    /\ ppc = "idle"

RoundIdle ==
    /\ urls_in = {}
    /\ locale_enc = "utf-8"
    /\ disk = <<>>
    /\ reloaded = {}
    /\ rpc = "idle"

VisitIdle ==
    /\ popups = {}
    /\ hrefs = <<>>
    /\ js_links = {}
    /\ visits = 0
    /\ made = 0
    /\ made_before = 0
    /\ page = 0
    /\ open = {}
    /\ used = {}
    /\ selector = 1
    /\ queried = {}
    /\ clicked = {}
    /\ steps = <<>>
    /\ threw = {}
    /\ raw_links = {}
    /\ got1 = 0
    /\ page_links = {}
    /\ returned = {}
    /\ outcomes = <<>>
    /\ vpc = "idle"

CrawlIdle ==
    /\ site = "any"
    /\ ckpt = NoFile
    /\ max_pages = 0
    /\ existing_urls = {}
    /\ all_links = {}
    /\ visited_links = {}
    /\ failed_links = {}
    /\ links_to_visit = {}
    /\ pages_visited = 0
    /\ current_url = Null
    /\ attempt = 0
    /\ success = FALSE
    /\ internal_links = {}
    /\ pc = "idle"
    /\ calls = 0
    /\ ok_at = 0
    /\ succeeded = {}
    /\ unsaved = 0
    /\ saw_both = FALSE
    /\ fail_adds = 0
    /\ loaded = "none"
    /\ discovered = {}
    /\ paced = 0
    /\ backoffs = 0
    /\ result = {}

\* Crawler.__init__ (24-36): a crawler before its first crawl; the
\* checkpoint file is missing or unreadable
InitCrawl(sites) ==
    /\ NormIdle
    /\ SelIdle
    /\ VisitIdle
    /\ RoundIdle
    /\ RateIdle
    /\ ProcIdle
    /\ site \in sites
    /\ ckpt \in {NoFile, BadFile}
    /\ max_pages \in CapChoices
    /\ existing_urls = {}
    /\ all_links = {}
    /\ visited_links = {}
    /\ failed_links = {}
    /\ links_to_visit = {}
    /\ pages_visited = 0
    /\ current_url = Null
    /\ attempt = 0
    /\ success = FALSE
    /\ internal_links = {}
    /\ pc = "start"
    /\ calls = 0
    /\ ok_at = 0
    /\ succeeded = {}
    /\ unsaved = 0
    /\ saw_both = FALSE
    /\ fail_adds = 0
    /\ loaded = "none"
    /\ discovered = {}
    /\ paced = 0
    /\ backoffs = 0
    /\ result = {}

Init == InitCrawl({"any"})
InitSite == InitCrawl({"chain", "tree"})

Next ==
    \/ StartSession
    \/ StartFails
    \/ Select
    \/ ExitLoop
    \/ VisitOK
    \/ VisitFails
    \/ VisitFailsAtClose
    \/ Backoff
    \/ Pace
    \/ Abort
    \/ FinalSave
    \/ CloseFails
    \/ Restart

\* a crawl of a site whose pages hold any links
Spec == Init /\ [][Next]_vars

\* a crawl of a site with a fixed link graph
SpecSite == InitSite /\ [][Next]_vars

\* the canonical URLs a checkpoint of the site "any" can hold
AnyUrls == {Normalized[link] : link \in AnyRaw} \ {Null}

\* a crawler before its crawl, with any checkpoint file an earlier session
\* can have left
InitLive ==
    /\ NormIdle
    /\ SelIdle
    /\ VisitIdle
    /\ RoundIdle
    /\ RateIdle
    /\ ProcIdle
    /\ site = "any"
    /\ ckpt \in {NoFile, BadFile} \cup {save_urls_to_json(urls) : urls \in SUBSET AnyUrls}
    /\ max_pages \in CapChoices
    /\ existing_urls = {}
    /\ all_links = {}
    /\ visited_links = {}
    /\ failed_links = {}
    /\ links_to_visit = {}
    /\ pages_visited = 0
    /\ current_url = Null
    /\ attempt = 0
    /\ success = FALSE
    /\ internal_links = {}
    /\ pc = "start"
    /\ calls = 0
    /\ ok_at = 0
    /\ succeeded = {}
    /\ unsaved = 0
    /\ saw_both = FALSE
    /\ fail_adds = 0
    /\ loaded = "none"
    /\ discovered = {}
    /\ paced = 0
    /\ backoffs = 0
    /\ result = {}

\* the steps of one call of crawl
NextSession ==
    \/ StartSession
    \/ StartFails
    \/ Select
    \/ ExitLoop
    \/ VisitOK
    \/ VisitFails
    \/ VisitFailsAtClose
    \/ Backoff
    \/ Pace
    \/ Abort
    \/ FinalSave
    \/ CloseFails

\* the steps crawl takes when nothing raises out of it: the coroutine is
\* always resumed, every visit_page call returns, every sleep ends
Progress ==
    \/ StartSession
    \/ Select
    \/ ExitLoop
    \/ VisitOK
    \/ VisitFails
    \/ VisitFailsAtClose
    \/ Backoff
    \/ Pace
    \/ FinalSave

\* one session that keeps running
SpecLive == InitLive /\ [][NextSession]_vars /\ WF_vars(Progress)

InitNorm ==
    /\ CrawlIdle
    /\ SelIdle
    /\ VisitIdle
    /\ RoundIdle
    /\ RateIdle
    /\ ProcIdle
    /\ raw \in RawLinks
    /\ once = Null
    /\ twice = Null
    /\ slashed = Null
    /\ npc = "raw"

\* normalize(u)
NormalizeOnce ==
    /\ npc = "raw"
    /\ once' = Normalize(raw)
    /\ npc' = "once"
    /\ UNCHANGED <<raw, twice, slashed, selVars, visitVars, roundVars, scrapeVars, envVars,
                   crawlVars, histVars>>

\* normalize(normalize(u)), for an accepted u
NormalizeTwice ==
    /\ npc = "once"
    /\ once # Null
    /\ twice' = Normalize(once)
    /\ npc' = "twice"
    /\ UNCHANGED <<raw, once, slashed, selVars, visitVars, roundVars, scrapeVars, envVars,
                   crawlVars, histVars>>

\* normalize(u with '/' appended to its path)
NormalizeSlashed ==
    /\ npc = "once"
    /\ slashed' = Normalize(WithSlash(raw))
    /\ npc' = "pair"
    /\ UNCHANGED <<raw, once, twice, selVars, visitVars, roundVars, scrapeVars, envVars,
                   crawlVars, histVars>>

NextNorm == NormalizeOnce \/ NormalizeTwice \/ NormalizeSlashed

\* the link filter applied to raw links
SpecNorm == InitNorm /\ [][NextNorm]_vars

\* a non-empty Frontier and a state of the random source
InitSelect ==
    /\ NormIdle
    /\ CrawlIdle
    /\ VisitIdle
    /\ RoundIdle
    /\ RateIdle
    /\ ProcIdle
    /\ sel_from \in (SUBSET {PageOf(i) : i \in 0..(FrontierMax - 1)}) \ {{}}
    /\ rng \in 0..(RngStates - 1)
    /\ chosen = <<>>
    /\ remaining = <<>>
    /\ spc = "run"

NextSelect == SelectNext

\* the selection of line 377-378, twice from the same starting point
SpecSelect == InitSelect /\ [][NextSelect]_vars

\* a WebScraper before its first scrape_url call
InitRate ==
    /\ NormIdle
    /\ SelIdle
    /\ VisitIdle
    /\ RoundIdle
    /\ CrawlIdle
    /\ ProcIdle
    /\ clock = 0
    /\ last_request_time = [d \in RateDomains |-> Absent]
    /\ released = [d \in RateDomains |-> Absent]
    /\ prev_released = [d \in RateDomains |-> Absent]
    /\ slept = 0
    /\ tpc = "calls"

NextRate == ScrapeUrl

\* scrape_url called again and again, one call after the other
SpecRate == InitRate /\ [][NextRate]_vars

\* the lists of URLs of at most MaxUrls entries
UrlLists == UNION {[1..n -> RateUrls] : n \in 0..MaxUrls}

\* process_urls_from_json has read the list and built its WebScraper
\* (lines 291-300)
InitProcess ==
    /\ NormIdle
    /\ SelIdle
    /\ VisitIdle
    /\ RoundIdle
    /\ CrawlIdle
    /\ RateIdle
    /\ url_list \in UrlLists
    /\ next_url = 1
    /\ successful_urls = <<>>
    /\ failed_urls = <<>>
    /\ fate = <<>>
    /\ summary = {}
    /\ ppc = "loop"

NextProcess == ProcessUrl \/ Summarize \/ Interrupted

\* one call of process_urls_from_json
SpecProcess == InitProcess /\ [][NextProcess]_vars

\* the sets of URLs saved in the harness, and the encodings of a locale
RoundUrls == {PageOf(0), PageOf(1), DeadEnd, CafePage}
Encodings == {"utf-8", "cp1252", "ascii"}

\* a set of URLs is about to be saved
InitRound ==
    /\ NormIdle
    /\ SelIdle
    /\ VisitIdle
    /\ CrawlIdle
    /\ RateIdle
    /\ ProcIdle
    /\ urls_in \in SUBSET RoundUrls
    /\ locale_enc \in Encodings
    /\ disk = <<>>
    /\ reloaded = {}
    /\ rpc = "save"

NextRound == SaveRound \/ LoadRound

\* a checkpoint written, then read
SpecRound == InitRound /\ [][NextRound]_vars

\* the pages visit_page is called on in the harness: what the a[href]
\* elements hold, what the script of method 2 returns
HrefLists ==
    { <<>>,
      <<PageOf(1)>>,
      <<Chars_hash \o <<"t","o","p">>, PageOf(1)>>,
      <<PageOf(1), PageOf(2)>>,
      <<PageOf(1), ImageJpg>> }
JsLinkSets == SUBSET {PageOf(1), PageOf(3)}

\* the first visit_page call of a crawler begins
InitVisit ==
    /\ NormIdle
    /\ SelIdle
    /\ CrawlIdle
    /\ RoundIdle
    /\ RateIdle
    /\ ProcIdle
    /\ popups \in SUBSET (1..NumSelectors)
    /\ hrefs \in HrefLists
    /\ js_links \in JsLinkSets
    /\ visits = 1
    /\ made = 0
    /\ made_before = 0
    /\ page = 0
    /\ open = {}
    /\ used = {}
    /\ selector = 1
    /\ queried = {}
    /\ clicked = {}
    /\ steps = <<>>
    /\ threw = {}
    /\ raw_links = {}
    /\ got1 = 0
    /\ page_links = {}
    /\ returned = {}
    /\ outcomes = <<>>
    /\ vpc = "new_page"

NextVisitStep ==
    \/ NewPage
    \/ Goto
    \/ SleepLikeUser
    \/ MouseMove
    \/ WaitNetworkIdle
    \/ Scroll
    \/ PopupQuery
    \/ PopupClick
    \/ Settle
    \/ ExtractBySelectors
    \/ ExtractByJs
    \/ FilterAndMerge
    \/ ClosePage
    \/ OnException
    \/ Cancelled
    \/ NextVisit

\* visit_page, called MaxVisits times in a row
SpecVisit == InitVisit /\ [][NextVisitStep]_vars

-----------------------------------------------------------------------------
(* Properties of the crawl session (Spec, SpecSite).                       *)

\* C1: at every iteration boundary (and in between), in fresh and resumed
\* sessions, the Frontier is disjoint from Visited and from Failed.
FrontierDisjoint ==
    /\ links_to_visit \cap visited_links = {}
    /\ links_to_visit \cap failed_links = {}

\* a resumed session at an iteration boundary, after a successful and a
\* failed visit, with URLs still queued
FrontierDisjointWitness ==
    /\ pc = "loop"
    /\ existing_urls # {}
    /\ succeeded # {}
    /\ failed_links # {}
    /\ links_to_visit # {}

\* C2: pages_visited never exceeds max_pages, also while the Frontier is
\* non-empty, and failed visits count toward the cap.
CapNeverExceeded == pages_visited <= max_pages

\* the loop has ended at the cap with URLs still queued, one visit failed
CapNeverExceededWitness ==
    /\ pc = "cleanup"
    /\ pages_visited = max_pages
    /\ links_to_visit # {}
    /\ failed_links # {}

\* the state right after lines 349-372, before the first iteration
AtStart == pc = "loop" /\ pages_visited = 0

\* C3 as stated: whenever a checkpoint exists the initial Frontier is the
\* set of URLs loaded from it, and {start_url} when none exists.
SeedFromAnyCheckpoint ==
    AtStart =>
        /\ ckpt.state = "ok" => links_to_visit = ToSet(ckpt.urls)
        /\ ckpt.state = "absent" => links_to_visit = {start_url}

\* C3 amended: the initial Frontier is the set of URLs loaded from the
\* checkpoint when that set is non-empty, whatever start_url is, and
\* {start_url} when there is no checkpoint or it yields no URL.
SeedFromNonEmptyCheckpoint ==
    AtStart =>
        links_to_visit = (IF CkptUrls # {} THEN CkptUrls ELSE {start_url})

\* a session resumes from a checkpoint {start_url, B}
SeedFromCheckpointWitness ==
    /\ AtStart
    /\ start_url \in CkptUrls
    /\ Cardinality(CkptUrls) >= 2
    /\ links_to_visit = CkptUrls

\* C4: when attempt k is the first to succeed, visit_page has been invoked
\* exactly k times for the URL once its retry loop is over, k <= retries,
\* and the URL is in Visited and never in Failed.
RetrySuccess ==
    /\ (pc = "pace" /\ ok_at > 0) =>
           /\ calls = ok_at
           /\ ok_at <= Retries
           /\ current_url \in visited_links
           /\ current_url \notin failed_links
    /\ succeeded \subseteq visited_links
    /\ succeeded \cap failed_links = {}

\* attempt 1 failed, attempt 2 succeeded, the retry loop is over
RetrySuccessWitness ==
    /\ pc = "pace"
    /\ ok_at = 2
    /\ calls = 2
    /\ current_url \in succeeded

\* C5: whenever a session has exited, normally or after an abort, the
\* final save has been made: no successful visit has found a link that the
\* checkpoint file lacks.
FinalSaveOnEveryExit == pc \in {"done", "crashed"} => unsaved = 0

\* C6: at any point, fewer than 5 successful visits have discoveries that
\* are missing from the checkpoint file.
BoundedLoss == unsaved < SaveEvery

\* C9: once a page linking to https://other.com/page and to
\* https://example.com/image.jpg has been processed, neither URL is in the
\* Frontier or in KnownLinks, and every admitted link has host site_path or
\* www.site_path.
ScopeExclusion ==
    saw_both =>
        /\ OtherPage \notin all_links \cup links_to_visit
        /\ ImageJpg \notin all_links \cup links_to_visit
        /\ \A link \in (all_links \cup links_to_visit) \ {start_url} :
               IsInternal(urlparse(link))

\* a fresh session on the chain site with max_pages = 3 has run its loop
\* to the end (the last iteration is complete, the loop condition fails)
\* and saved, every visit having succeeded
ChainDone ==
    /\ site = "chain"
    /\ existing_urls = {}
    /\ max_pages = 3
    /\ pc = "done"
    /\ current_url = Null
    /\ ~LoopGuard
    /\ succeeded = visited_links

\* C10 as stated: exactly 3 pages are visited and the final checkpoint
\* holds the 3 visited URLs and 2 more links that were never visited.
CapCheckpointAsStated ==
    ChainDone =>
        /\ pages_visited = 3
        /\ visited_links \subseteq CkptUrls
        /\ Cardinality(CkptUrls \ visited_links) >= 2

\* C10 amended: exactly 3 pages are visited and the final checkpoint holds
\* exactly the 3 discovered links: the 2 visited URLs other than start_url
\* and the 1 link beyond the cap; start_url is not in it.
CapCheckpoint ==
    ChainDone =>
        /\ pages_visited = 3
        /\ visited_links = {PageOf(0), PageOf(1), PageOf(2)}
        /\ CkptUrls = {PageOf(1), PageOf(2), PageOf(3)}

CapCheckpointWitness ==
    /\ ChainDone
    /\ Cardinality(visited_links) = 3
    /\ Cardinality(CkptUrls \ visited_links) = 1
    /\ start_url \notin CkptUrls

\* C11: in every reachable state of a session the Frontier is a subset of
\* KnownLinks \cup {start_url}.
FrontierKnown == links_to_visit \subseteq all_links \cup {start_url}

\* a fresh session has visited a page and queued a link found on it
FrontierKnownWitness ==
    /\ pc = "loop"
    /\ existing_urls = {}
    /\ succeeded # {}
    /\ links_to_visit # {}
    /\ start_url \notin links_to_visit
    /\ links_to_visit \subseteq all_links

\* the URL whose retry loop is not over (also when the loop was aborted)
Unfinished ==
    IF current_url # Null /\ ~success /\ attempt < Retries
    THEN {current_url} ELSE {}

\* C12: visit_page is invoked at most `retries` times for a selected URL;
\* the URL is in Failed exactly when its retry loop ended with every attempt
\* failed; failed_links.add runs once per failed URL; and recording the
\* failure leaves the crawl loop running: control goes on to the sleep
\* between pages with the Frontier and the page count untouched.
RetryExhaustion ==
    /\ [] /\ calls <= Retries
          /\ failed_links = (visited_links \ succeeded) \ Unfinished
          /\ (pc = "pace" /\ ok_at = 0) =>
                 (calls = Retries /\ current_url \in failed_links)
          /\ fail_adds = Cardinality(failed_links)
    /\ [][fail_adds' > fail_adds =>
            /\ pc' = "pace"
            /\ links_to_visit' = links_to_visit
            /\ pages_visited' = pages_visited]_vars

\* a URL is being visited after another URL has used up its retries
RetryExhaustionWitness ==
    /\ pc = "attempt"
    /\ calls = 0
    /\ fail_adds = 1
    /\ current_url \notin failed_links

\* C13 as stated: no URL is a member of both Visited and Failed.
VisitedFailedDisjoint == visited_links \cap failed_links = {}

\* C13 amended: every selected URL is in Visited; a URL whose visit failed
\* is in Failed as well as in Visited, and a URL whose visit succeeded is in
\* Visited and not in Failed.
FailedWithinVisited ==
    /\ failed_links \subseteq visited_links
    /\ succeeded \subseteq visited_links \ failed_links
    /\ current_url # Null => current_url \in visited_links

\* one visit has succeeded and one has failed
FailedWithinVisitedWitness ==
    /\ pc = "loop"
    /\ succeeded # {}
    /\ failed_links # {}
    /\ failed_links \subseteq visited_links

\* C14: a successful visit that yields the filtered links L turns KnownLinks
\* into KnownLinks \cup L and the Frontier into
\* Frontier \cup (L \ (Visited \cup Failed)); the URL being visited is not
\* re-enqueued.
RecordVisit ==
    [][(pc = "attempt" /\ success') =>
          /\ all_links' = all_links \cup internal_links'
          /\ links_to_visit' =
                 links_to_visit \cup (internal_links' \ (visited_links \cup failed_links))
          /\ current_url \notin links_to_visit']_vars

\* a successful visit found a link to the page itself, a link to a failed
\* URL and a link that it queued
RecordVisitWitness ==
    /\ pc = "pace"
    /\ success
    /\ current_url \in internal_links
    /\ internal_links \cap failed_links # {}
    /\ internal_links \cap links_to_visit # {}

\* C17: between two consecutive page visits, whatever the outcome of the
\* first, exactly one sleep of line 423 occurs; the backoff sleeps of the
\* retry loop are not that sleep, it is still to come after them.
PacingBetweenVisits ==
    /\ (pc = "attempt" /\ calls = 0 /\ pages_visited > 1) => paced = 1
    /\ pc \in {"backoff", "pace"} => paced = 0

\* a visit begins after a successful and a failed visit
PacingBetweenVisitsWitness ==
    /\ pc = "attempt"
    /\ calls = 0
    /\ succeeded # {}
    /\ failed_links # {}
    /\ paced = 1

\* C19: a failed URL is never in the Frontier again in its session, also
\* when a later page links to it; KnownLinks never loses a URL during a
\* session, and the failed URLs in KnownLinks are in the final checkpoint.
FailedStaysOut ==
    /\ [] /\ failed_links \cap links_to_visit = {}
          /\ pc = "done" => (failed_links \cap all_links) \subseteq CkptUrls
    /\ [][pc \notin {"done", "crashed"} => all_links \subseteq all_links']_vars

\* a page visited after a failure linked to the failed URL, and the final
\* checkpoint holds the failed URL
FailedStaysOutWitness ==
    /\ pc = "done"
    /\ success
    /\ internal_links \cap failed_links # {}
    /\ failed_links \cap CkptUrls # {}

\* C20: every checkpoint record written holds the KnownLinks of that moment
\* as a list in strictly ascending order (sorted, no duplicates), and its
\* count is the number of entries of the list.
CheckpointRecord ==
    /\ [](ckpt.state = "ok" =>
            /\ \A i \in 1..(Len(ckpt.urls) - 1) :
                   StrLess(ckpt.urls[i], ckpt.urls[i + 1])
            /\ ckpt.count = Len(ckpt.urls))
    /\ [][ckpt' # ckpt => ToSet(ckpt'.urls) = all_links']_vars

\* the periodic save of a fresh session has written several URLs
CheckpointRecordWitness ==
    /\ pc = "pace"
    /\ existing_urls = {}
    /\ ckpt.state = "ok"
    /\ ckpt.count >= 3
    /\ ToSet(ckpt.urls) = all_links

\* how far a session is from its end: the page visits left under the cap,
\* then the attempts left on the current URL, then the place in the iteration
Measure ==
    LET width == 2 * Retries + 4
        left == max_pages - pages_visited
    IN  CASE pc = "start" -> width * (max_pages + 1)
          [] pc = "loop" -> width * left
          [] pc = "attempt" -> width * left + 2 * (Retries - attempt) + 3
          [] pc = "backoff" -> width * left + 2 * (Retries - attempt) + 2
          [] pc = "pace" -> width * left + 1
          [] pc = "cleanup" -> 0 - 1
          [] OTHER -> 0 - 2

\* every step of a session brings it nearer to its end: a session takes
\* finitely many steps, whatever the pages hold and whatever max_pages is
EveryStepDescends == [][Measure' < Measure]_vars

\* a session that has not ended can always take a step of its own
NeverStuck == pc \notin {"done", "crashed"} => ENABLED Progress

\* the loop of a session that keeps running ends
LoopTerminates == (pc = "loop") ~> (pc = "cleanup")

\* C18: every iteration that visits a page increases pages_visited, the
\* loop of a session that keeps running ends, and after the loop has ended
\* the final save is made and the session result is returned.
CrawlCompletes ==
    /\ [][(pc = "loop" /\ pc' = "attempt") => pages_visited' = pages_visited + 1]_vars
    /\ (pc = "loop") ~> (pc = "cleanup")
    /\ (pc = "cleanup") ~> (pc = "done")

\* the dict returned reports the sets of the session's end
SessionResultFields ==
    \A r \in result :
        /\ r.urls_count = Cardinality(all_links)
        /\ r.pages_visited = Cardinality(visited_links)
        /\ r.failed_urls = Cardinality(failed_links)

\* C21: the dict crawl returns holds |KnownLinks|, the number of URLs
\* selected for a visit and |Failed| of the session's end, and every way out
\* of the loop, a loop-level exception included, ends with the dict returned.
SessionResultReturned ==
    /\ []SessionResultFields
    /\ [][pc = "cleanup" => result' # {}]_vars

\* C28: a backoff sleep follows a failed attempt exactly when another
\* attempt on the same URL follows: when the retry loop of a URL is over,
\* there has been one sleep of line 416 between every two attempts and none
\* after the last one.
BackoffOnlyBetweenAttempts == pc = "pace" => backoffs = calls - 1

\* the filter applied to the URLs a crawl can hold
Renormalized == [u \in CrawlUrls |-> Normalize(u)]

\* C29: every URL in the Frontier, the seed and the checkpoint URLs
\* included, is in scope and canonical: the filter accepts it and returns it
\* unchanged.
FrontierCanonical == \A u \in links_to_visit : Renormalized[u] = u

\* C30: a visit attempt that returns Failure, whatever step raised, leaves
\* KnownLinks and the Frontier as they were.
FailureChangesNothing ==
    [][(pc = "attempt" /\ pc' = "backoff") =>
          /\ all_links' = all_links
          /\ links_to_visit' = links_to_visit]_vars

\* each run removes exactly the URL it returns, a member of the set
SelectRemovesOne ==
    \A i \in 1..Len(chosen) :
        /\ chosen[i] \in sel_from
        /\ remaining[i] = sel_from \ {chosen[i]}

\* C22: selectNext removes and returns one member of the Frontier, and the
\* choice is reproducible: from the same state of the random source and the
\* same Frontier, two runs choose the same URL.
SelectReproducible ==
    /\ SelectRemovesOne
    /\ Len(chosen) = 2 => chosen[1] = chosen[2]

\* C31: pages_visited equals |Visited| throughout a session, and the skip
\* of lines 381-382 is never taken: a URL taken from the Frontier is never
\* in Visited, so every pass of the loop head goes on to a visit.
VisitedCount ==
    /\ [](pages_visited = Cardinality(visited_links))
    /\ [][pc = "loop" => (pc' # "loop" /\ (pc' = "attempt" => current_url' \notin visited_links))]_vars

\* two URLs were selected, one of them failed for good
VisitedCountWitness ==
    /\ pc = "pace"
    /\ pages_visited = 2
    /\ Cardinality(failed_links) = 1
    /\ links_to_visit # {}

RoundTripUtf8 == (rpc = "done" /\ locale_enc = "utf-8") => reloaded = urls_in

\* C33: for every set K of URL strings, load_existing_urls on the file
\* that save_urls_to_json(K) wrote returns exactly K.
CheckpointRoundTrip == rpc = "done" => reloaded = urls_in

\* C34: when the checkpoint file exists and cannot be read,
\* load_existing_urls returns the empty set and does not raise: the session
\* starts as a fresh crawl, with nothing known and the Frontier {start_url},
\* and the checkpoint its final save writes is readable and holds exactly
\* the URLs discovered in that session.
UnreadableCheckpoint ==
    /\ [][(pc = "start" /\ ckpt.state = "corrupt" /\ pc' = "loop") =>
             /\ existing_urls' = {}
             /\ all_links' = {}
             /\ links_to_visit' = {start_url}]_vars
    /\ []((loaded = "corrupt" /\ pc \notin {"idle", "start"}) =>
             /\ existing_urls = {}
             /\ all_links = discovered
             /\ ckpt.state \in {"corrupt", "ok"}
             /\ ckpt.state = "ok" => CkptUrls \subseteq discovered)
    /\ []((loaded = "corrupt" /\ pc = "done") =>
             /\ ckpt.state = "ok"
             /\ CkptUrls = discovered)

\* a session that found the file unreadable has ended, and the file now
\* holds the URLs it discovered
UnreadableCheckpointWitness ==
    /\ loaded = "corrupt"
    /\ pc = "done"
    /\ ckpt.state = "ok"
    /\ discovered # {}
    /\ CkptUrls = discovered

-----------------------------------------------------------------------------
(* Properties of the scraper (SpecRate, SpecProcess).                      *)

\* the first request to a domain is not delayed, whatever was requested
\* from other domains before it
OtherDomainsNotDelayed ==
    [][\A d \in RateDomains :
          (released'[d] # released[d] /\ last_request_time[d] = Absent)
              => (slept' = 0 /\ released'[d] = clock)]_vars

\* C35: for any sequence of scrape_url calls made one after the other, two
\* consecutive requests to the same domain leave the limiter at least
\* DELAY_BETWEEN_REQUESTS apart.
RateLimitGap ==
    \A d \in RateDomains :
        prev_released[d] # Absent =>
            released[d] - prev_released[d] >= DELAY_BETWEEN_REQUESTS

\* the lists hold the URLs processed so far, each in the list of its fate,
\* in the order of the input
ListsFollowInput ==
    LET Picked(flag) ==
            LET idx == {i \in 1..Len(fate) : fate[i] = flag}
            IN  [k \in 1..Cardinality(idx) |->
                    url_list[CHOOSE i \in idx : Cardinality({j \in idx : j < i}) = k - 1]]
    IN  /\ Len(fate) <= Len(url_list)
        /\ successful_urls = Picked(TRUE)
        /\ failed_urls = Picked(FALSE)

\* C36: process_urls_from_json processes the URLs of the list in order, a
\* URL that fails does not stop the loop, every URL processed is in exactly
\* one of the two lists, and the counts returned add up to the length of
\* the list.
ProcessesEveryUrl ==
    /\ [](ppc # "idle" =>
            /\ ListsFollowInput
            /\ Len(fate) = next_url - 1
            /\ Len(successful_urls) + Len(failed_urls) = Len(fate))
    /\ [](ppc = "returned" =>
            /\ Len(fate) = Len(url_list)
            /\ \A r \in summary :
                 /\ r.successful = Len(successful_urls)
                 /\ r.failed = Len(failed_urls)
                 /\ r.successful + r.failed = Len(url_list))
    /\ [][Len(failed_urls') > Len(failed_urls) =>
             (ppc' = "loop" /\ next_url' = next_url + 1)]_vars

\* a list of three URLs was processed to its end: the first URL failed, the
\* second succeeded, the third failed, and the function returned
ProcessesEveryUrlWitness ==
    /\ ppc = "returned"
    /\ Len(url_list) = 3
    /\ fate = <<FALSE, TRUE, FALSE>>
    /\ summary = {[successful |-> 1, failed |-> 2]}

-----------------------------------------------------------------------------
(* Properties of one visit (SpecVisit).                                    *)

\* the call returned, with success
ReturnedSuccess == vpc = "returned" /\ \A r \in returned : r.ok

\* exceptions inside the popup block alone never fail the visit
PopupFailureSwallowed ==
    (vpc = "returned" /\ threw = {"popups"}) => ReturnedSuccess

\* C23: an exception raised by the emulation of a human (the mouse move,
\* the scrolling) or by the dismissal of popups never changes the outcome
\* of the visit: when nothing else raised, the visit returns Success.
EmulationNeverFails ==
    (vpc = "returned" /\ threw # {} /\ threw \subseteq {"mouse", "scroll", "popups"})
        => ReturnedSuccess

\* the selectors are tried in the order of the list
PopupListOrder == queried = 1..Cardinality(queried)

\* C24: the popup dismissal tries the selectors in list order and stops at
\* the first click that succeeds: no selector after a clicked one is queried
\* or clicked.
PopupStopsAtFirstClick ==
    /\ PopupListOrder
    /\ \A c \in clicked : \A q \in queried \cup clicked : q <= c

\* every occurrence of step a in the current call is before every
\* occurrence of step b
StepBefore(a, b) ==
    \A i, j \in 1..Len(steps) : (steps[i] = a /\ steps[j] = b) => i < j

\* C25: the steps of a visit run in the order: page acquired, navigation,
\* wait for network idle, emulation (sleep, mouse move, scroll), popup
\* dismissal, extraction, page close; nothing of the emulation runs before
\* the wait for network idle.
VisitStepOrder ==
    /\ StepBefore("new_page", "goto")
    /\ StepBefore("goto", "networkidle")
    /\ StepBefore("networkidle", "sleep")
    /\ StepBefore("networkidle", "mouse")
    /\ StepBefore("networkidle", "scroll")
    /\ StepBefore("mouse", "scroll")
    /\ StepBefore("scroll", "popups")
    /\ StepBefore("popups", "extract")
    /\ StepBefore("extract", "close")

\* what each method yields when it does not raise
AllOfMethod1 == Method1(Len(hrefs))
Threw1 == "selectors" \in threw
Threw2 == "javascript" \in threw

\* C26 (as stated): extraction returns the union of the two methods, and
\* when one method raises the result is exactly the links of the other one
\* (the empty set when both raise).
ExtractionExactlyOther ==
    vpc = "filter" =>
        raw_links = (IF Threw1 THEN {} ELSE AllOfMethod1)
                        \cup (IF Threw2 THEN {} ELSE js_links)

\* C26 (amended): extraction returns the union of the two methods; when
\* method 2 raises the result is exactly the links of method 1; when method
\* 1 raises the result holds the links of method 2 (none when it raised
\* too) and, besides them, only links method 1 had read before it raised.
\* The visit goes on to the filter in every case.
ExtractionUnion ==
    vpc = "filter" =>
        /\ ~Threw1 => raw_links = AllOfMethod1 \cup (IF Threw2 THEN {} ELSE js_links)
        /\ Threw1 =>
             /\ raw_links \subseteq AllOfMethod1 \cup (IF Threw2 THEN {} ELSE js_links)
             /\ ~Threw2 => js_links \subseteq raw_links
             /\ raw_links = Method1(got1) \cup (IF Threw2 THEN {} ELSE js_links)

\* method 1 raised after it had read a link that method 2 does not return,
\* method 2 did not raise, and the visit went on
ExtractionUnionWitness ==
    /\ vpc = "filter"
    /\ Threw1
    /\ ~Threw2
    /\ got1 > 0
    /\ raw_links # js_links
    /\ js_links # {}

\* C27: a visit_page call acts on a page it has opened itself, close() has
\* been called on that page when the call returns, with Success or after an
\* exception, and at no time is there more than one page on which close()
\* was not called.
PageDiscipline ==
    /\ Cardinality(open) <= 1
    /\ vpc = "returned" => open = {}
    /\ \A p \in used \cup (open \ {0}) : p > made_before
    /\ page # 0 => (page > made_before /\ page = made)

\* a call that failed after it had opened a page has returned, and the call
\* after it has returned Success on a page of its own
PageDisciplineWitness ==
    /\ outcomes = <<FALSE, TRUE>>
    /\ vpc = "returned"
    /\ made = 2
    /\ used = {2}
    /\ open = {}

-----------------------------------------------------------------------------
(* Properties of the link filter (SpecNorm).                               *)

\* C7: for every accepted raw link, the filter accepts its own output and
\* returns it unchanged.
NormalizationIdempotent == npc = "twice" => twice = once

\* a link of the crawled host whose path does not end with a denylisted
\* extension (steps 2 and 3 of the scope filter)
InScopePath(link) ==
    /\ IsInternal(urlparse(link))
    /\ ~ \E ext \in DeniedExtensions : EndsWith(UrlPath(link), ext)

PathEndsDenied(link) == \E ext \in DeniedExtensions : EndsWith(UrlPath(link), ext)

\* C15: a link of the crawled host is rejected exactly when the path
\* component of its URL ends with a denylisted extension, whatever query
\* string or fragment follows the path.
ExtensionOnPath ==
    (npc = "once" /\ IsInternal(urlparse(raw))) =>
        ((once = Null) <=> PathEndsDenied(raw))

\* the keys of the allowlist
AllowedKeys ==
    { <<"i","d">>, <<"p","a","g","e">>,
      <<"c","a","t","e","g","o","r","y">>, <<"p">> }

\* a key=value piece of the query whose key is on the allowlist (a piece
\* without '=' carries no key/value pair)
HasAllowedKey(piece) ==
    /\ Find(piece, "=") > 0
    /\ Before(piece, Find(piece, "=")) \in AllowedKeys

\* the allowlisted parameters of the link, in their order
KeptParams(link) == SelectSeq(Split(UrlQuery(link), "&"), HasAllowedKey)

\* C16: the query of the canonical URL is exactly the parameters of the raw
\* link whose key is id, page, category or p, in their original order and
\* joined with '&'; when there is none the canonical URL has no '?'.
QueryAllowlist ==
    (npc = "once" /\ once # Null) =>
        /\ UrlQuery(once) = Join(KeptParams(raw), <<"&">>)
        /\ KeptParams(raw) = <<>> => Find(once, "?") = 0
        /\ KeptParams(raw) # <<>> => Find(once, "?") > 0

\* ?x=1&id=1&p=2 became ?id=1&p=2
QueryAllowlistWitness ==
    /\ npc = "once"
    /\ once # Null
    /\ UrlQuery(raw) = <<"x","=","1","&","i","d","=","1","&","p","=","2">>
    /\ UrlQuery(once) = <<"i","d","=","1","&","p","=","2">>

====
